---- MODULE Spec2Model ----
(***************************************************************************)
(* QuidWise UK tax engine: tools/tax_calculator.py (UKTaxCalculator and    *)
(* its helpers) over the TaxInput / TaxBreakdown models of                 *)
(* models/schemas.py.                                                      *)
(*                                                                         *)
(* Money is held exactly, as an integer number of units of 1/200 pound     *)
(* (half a penny): the taper halves a whole-pound excess and the rates are *)
(* whole hundredths, so every amount the calculation produces from a       *)
(* whole-pound post-pension gross is a whole number of units.  Rates are   *)
(* held in hundredths (0.20 is 20).  IEEE rounding of the Python floats is *)
(* not modelled; ArithmeticExact states that no model division truncates.  *)
(***************************************************************************)
EXTENDS Integers, Sequences, FiniteSets, TLC

VARIABLES rates, frame, frame2, loads, tool

vars == <<rates, frame, frame2, loads, tool>>

------------------------------------------------------------------------------
(* Units and exact arithmetic *)

Pounds(n) == n * 200

\* x * (h / 100) for a rate h in hundredths; the split keeps the product in range
Times(x, h) == (x \div 100) * h + ((x % 100) * h) \div 100

Min(a, b) == IF a <= b THEN a ELSE b

Max(a, b) == IF a >= b THEN a ELSE b

\* float("inf") as a band's upper bound
Infinity == 2147483647

------------------------------------------------------------------------------
(* The rate table of data/tax_rates_2025_26.json (amounts in units, rates  *)
(* in hundredths; a null "max" is the falsy 0)                             *)

DefaultRates ==
    [ income_tax |->
        [ personal_allowance |-> Pounds(12570),
          personal_allowance_taper_threshold |-> Pounds(100000),
          bands |-> << [name |-> "Basic Rate", min |-> 0,
                        max |-> Pounds(37700), rate |-> 20],
                       [name |-> "Higher Rate", min |-> Pounds(37700),
                        max |-> Pounds(125140), rate |-> 40],
                       [name |-> "Additional Rate", min |-> Pounds(125140),
                        max |-> 0, rate |-> 45] >> ],
      national_insurance |->
        [ class_1 |->
            [ primary_threshold_annual |-> Pounds(12570),
              upper_earnings_limit |-> Pounds(50270),
              rate_between_thresholds |-> 8,
              rate_above_uel |-> 2 ] ],
      student_loans |->
        [ plan_1 |-> [threshold |-> Pounds(24990), rate |-> 9],
          plan_2 |-> [threshold |-> Pounds(27295), rate |-> 9],
          plan_4 |-> [threshold |-> Pounds(31395), rate |-> 9],
          plan_5 |-> [threshold |-> Pounds(25000), rate |-> 9],
          postgraduate |-> [threshold |-> Pounds(21000), rate |-> 6] ] ]

\* a later year's table: a larger allowance, NI primary threshold and plan 2
\* threshold, the bands as before
NextYearRates ==
    [ DefaultRates EXCEPT
        !.income_tax.personal_allowance = Pounds(13000),
        !.national_insurance.class_1.primary_threshold_annual = Pounds(13000),
        !.student_loans.plan_2.threshold = Pounds(28470) ]

\* a table with four bands, the lowest under a label of its own
FourBandRates ==
    [ DefaultRates EXCEPT
        !.income_tax.bands =
            << [name |-> "Starter Rate", min |-> 0,
                max |-> Pounds(5000), rate |-> 10],
               [name |-> "Basic Rate", min |-> Pounds(5000),
                max |-> Pounds(37700), rate |-> 20],
               [name |-> "Higher Rate", min |-> Pounds(37700),
                max |-> Pounds(125140), rate |-> 40],
               [name |-> "Additional Rate", min |-> Pounds(125140),
                max |-> 0, rate |-> 45] >> ]

\* StudentLoanPlan: the enum's values; "none" is Python's None
StudentLoanPlan == {"plan_1", "plan_2", "plan_4", "plan_5", "postgraduate"}

NoPlan == "none"

------------------------------------------------------------------------------
(* UKTaxCalculator's helpers, each reading the table R = self.rates *)

\* the taper taking a pound of allowance per pound of excess
PersonalAllowance_Unhalved(R, gross) ==
    LET base_allowance == R.income_tax.personal_allowance
        taper_threshold == R.income_tax.personal_allowance_taper_threshold
    IN  IF gross <= taper_threshold
        THEN base_allowance
        ELSE Max(0, base_allowance - (gross - taper_threshold))

_calculate_personal_allowance(R, gross) ==
    LET base_allowance == R.income_tax.personal_allowance
        taper_threshold == R.income_tax.personal_allowance_taper_threshold
    IN  IF gross <= taper_threshold
        THEN base_allowance
        ELSE LET reduction == (gross - taper_threshold) \div 2
             IN  Max(0, base_allowance - reduction)

\* the upper bound as stored, a null not read as unbounded
BandMax_Raw(band) == band.max

BandMax(band) == IF band.max # 0 THEN band.max ELSE Infinity

\* the band walk: st = [basic, higher, additional, remaining] after bands 1..k
RECURSIVE BandWalk(_, _, _)
BandWalk(bands, k, taxable_income) ==
    IF k = 0
    THEN [basic |-> 0, higher |-> 0, additional |-> 0,
          remaining |-> taxable_income]
    ELSE LET st == BandWalk(bands, k - 1, taxable_income)
             band == bands[k]
             band_width == BandMax(band) - band.min
             taxable_in_band == Min(st.remaining, band_width)
             tax == Times(taxable_in_band, band.rate)
         IN  IF st.remaining <= 0
             THEN st
             ELSE [ basic |-> IF band.name = "Basic Rate" THEN tax
                              ELSE st.basic,
                    higher |-> IF band.name = "Higher Rate" THEN tax
                               ELSE st.higher,
                    additional |-> IF band.name = "Additional Rate" THEN tax
                                   ELSE st.additional,
                    remaining |-> st.remaining - taxable_in_band ]

\* the band walk with the basic-rate charge left out
IncomeTax_SkipsBasic(R, taxable_income) ==
    LET bands == R.income_tax.bands
        st == BandWalk(bands, Len(bands), taxable_income)
    IN  <<0, st.higher, st.additional>>

_calculate_income_tax(R, taxable_income) ==
    LET bands == R.income_tax.bands
        st == BandWalk(bands, Len(bands), taxable_income)
    IN  <<st.basic, st.higher, st.additional>>

\* NI capped at the upper earnings limit: nothing charged above it
NI_Capped(R, gross) ==
    LET ni_rates == R.national_insurance.class_1
        primary_threshold == ni_rates.primary_threshold_annual
        uel == ni_rates.upper_earnings_limit
    IN  IF gross <= primary_threshold THEN 0
        ELSE Times(Min(gross, uel) - primary_threshold,
                   ni_rates.rate_between_thresholds)

\* NI above the upper earnings limit charged on the excess alone
NI_UpperTierOnly(R, gross) ==
    LET ni_rates == R.national_insurance.class_1
        primary_threshold == ni_rates.primary_threshold_annual
        uel == ni_rates.upper_earnings_limit
    IN  IF gross <= primary_threshold THEN 0
        ELSE IF gross > uel
        THEN Times(gross - uel, ni_rates.rate_above_uel)
        ELSE Times(gross - primary_threshold, ni_rates.rate_between_thresholds)

_calculate_ni(R, gross) ==
    LET ni_rates == R.national_insurance.class_1
        primary_threshold == ni_rates.primary_threshold_annual
        uel == ni_rates.upper_earnings_limit
        rate_main == ni_rates.rate_between_thresholds
        rate_upper == ni_rates.rate_above_uel
        ni_main == Min(gross, uel) - primary_threshold
        ni_main_amount == Times(ni_main, rate_main)
        ni_upper_amount == IF gross > uel THEN Times(gross - uel, rate_upper)
                           ELSE 0
    IN  IF gross <= primary_threshold THEN 0
        ELSE ni_main_amount + ni_upper_amount

\* the repayment without the early return below the threshold
StudentLoan_NoFloor(R, gross, plan) ==
    IF plan = NoPlan THEN 0
    ELSE IF plan \notin DOMAIN R.student_loans THEN 0
    ELSE LET plan_rates == R.student_loans[plan]
         IN  Times(gross - plan_rates.threshold, plan_rates.rate)

_calculate_student_loan(R, gross, plan) ==
    IF plan = NoPlan THEN 0
    ELSE IF plan \notin DOMAIN R.student_loans THEN 0
    ELSE LET plan_rates == R.student_loans[plan]
             threshold == plan_rates.threshold
             rate == plan_rates.rate
         IN  IF gross <= threshold THEN 0
             ELSE Times(gross - threshold, rate)

\* the postgraduate rate read as a whole number instead of a fraction
PostgraduateLoan_RateAsWhole(R, gross) ==
    LET pg_rates == R.student_loans.postgraduate
        threshold == pg_rates.threshold
        rate == pg_rates.rate
    IN  IF gross <= threshold THEN 0
        ELSE (gross - threshold) * rate

_calculate_postgraduate_loan(R, gross) ==
    LET pg_rates == R.student_loans.postgraduate
        threshold == pg_rates.threshold
        rate == pg_rates.rate
    IN  IF gross <= threshold THEN 0
        ELSE Times(gross - threshold, rate)

\* the band scan of the marginal rate: [rate, found] after bands 1..k
RECURSIVE MarginalScan(_, _, _)
MarginalScan(bands, k, next_taxable) ==
    IF k = 0
    THEN [rate |-> 0, found |-> FALSE]
    ELSE LET st == MarginalScan(bands, k - 1, next_taxable)
             band == bands[k]
             band_max == BandMax(band)
         IN  IF st.found THEN st
             ELSE IF next_taxable > band.min /\ next_taxable <= band_max
             THEN [rate |-> band.rate, found |-> TRUE]
             ELSE IF next_taxable > band.min
             THEN [rate |-> band.rate, found |-> FALSE]
             ELSE st

\* the hardcoded upper end of the 60% range, in pounds
TrapUpperBound == 125140

\* the 60% range tested at the current gross instead of the next pound
IncomeTaxMarginal_AtCurrentGross(R, gross, tax_input) ==
    LET next_gross == gross + Pounds(1)
        next_taxable ==
            IF tax_input.is_secondary_job
            THEN next_gross
            ELSE next_gross - _calculate_personal_allowance(R, next_gross)
        bands == R.income_tax.bands
        scanned == MarginalScan(bands, Len(bands), next_taxable).rate
        taper_threshold == R.income_tax.personal_allowance_taper_threshold
    IN  IF /\ ~tax_input.is_secondary_job
           /\ taper_threshold < gross
           /\ gross <= Pounds(TrapUpperBound)
        THEN 60
        ELSE scanned

\* the 60% range applied whatever the job type
IncomeTaxMarginal_TrapForAll(R, gross, tax_input) ==
    LET next_gross == gross + Pounds(1)
        next_taxable ==
            IF tax_input.is_secondary_job
            THEN next_gross
            ELSE next_gross - _calculate_personal_allowance(R, next_gross)
        bands == R.income_tax.bands
        scanned == MarginalScan(bands, Len(bands), next_taxable).rate
        taper_threshold == R.income_tax.personal_allowance_taper_threshold
    IN  IF /\ taper_threshold < next_gross
           /\ next_gross <= Pounds(TrapUpperBound)
        THEN 60
        ELSE scanned

\* the income-tax component of the marginal rate, in hundredths
IncomeTaxMarginal(R, gross, tax_input) ==
    LET next_gross == gross + Pounds(1)
        next_taxable ==
            IF tax_input.is_secondary_job
            THEN next_gross
            ELSE next_gross - _calculate_personal_allowance(R, next_gross)
        bands == R.income_tax.bands
        scanned == MarginalScan(bands, Len(bands), next_taxable).rate
        taper_threshold == R.income_tax.personal_allowance_taper_threshold
    IN  IF /\ ~tax_input.is_secondary_job
           /\ taper_threshold < next_gross
           /\ next_gross <= Pounds(TrapUpperBound)
        THEN 60
        ELSE scanned

\* the NI tier of the next pound with the thresholds themselves included
NIMarginal_AtThreshold(R, gross) ==
    LET next_gross == gross + Pounds(1)
        ni_rates == R.national_insurance.class_1
    IN  IF next_gross >= ni_rates.upper_earnings_limit
        THEN ni_rates.rate_above_uel
        ELSE IF next_gross >= ni_rates.primary_threshold_annual
        THEN ni_rates.rate_between_thresholds
        ELSE 0

NIMarginal(R, gross) ==
    LET next_gross == gross + Pounds(1)
        ni_rates == R.national_insurance.class_1
    IN  IF next_gross > ni_rates.upper_earnings_limit
        THEN ni_rates.rate_above_uel
        ELSE IF next_gross > ni_rates.primary_threshold_annual
        THEN ni_rates.rate_between_thresholds
        ELSE 0

LoanMarginal(R, gross, tax_input) ==
    LET next_gross == gross + Pounds(1)
        plan == tax_input.student_loan_plan
        sl == IF /\ plan # NoPlan
                 /\ plan \in DOMAIN R.student_loans
                 /\ next_gross > R.student_loans[plan].threshold
              THEN R.student_loans[plan].rate
              ELSE 0
        pg == IF /\ tax_input.has_postgraduate_loan
                 /\ next_gross > R.student_loans.postgraduate.threshold
              THEN R.student_loans.postgraduate.rate
              ELSE 0
    IN  sl + pg

\* percent, held in hundredths of a percent (28% is 2800)
_calculate_marginal_rate(R, gross, tax_input) ==
    ( IncomeTaxMarginal(R, gross, tax_input)
      + NIMarginal(R, gross)
      + LoanMarginal(R, gross, tax_input) ) * 100

------------------------------------------------------------------------------
(* Rounding of the effective rate *)

\* [q, r]: quotient and remainder of r * 10^n by d, one decimal digit at a time
RECURSIVE DivDigits(_, _, _)
DivDigits(r, d, n) ==
    IF n = 0
    THEN [q |-> 0, r |-> r]
    ELSE LET p == DivDigits(r, d, n - 1)
             x == p.r * 10
         IN  [q |-> p.q * 10 + x \div d, r |-> x % d]

\* round(total_deductions / gross * 100, 2), in hundredths of a percent,
\* ties to even; gross > 0
RoundedRate(total_deductions, gross) ==
    LET whole == total_deductions \div gross
        frac == DivDigits(total_deductions % gross, gross, 4)
        q == whole * 10000 + frac.q
    IN  IF 2 * frac.r > gross THEN q + 1
        ELSE IF 2 * frac.r < gross THEN q
        ELSE IF q % 2 = 0 THEN q
        ELSE q + 1

------------------------------------------------------------------------------
(* One calculate call: the frame holds the position in the method body,    *)
(* the argument, the locals, what was raised and what was returned         *)

NewFrame(tax_input) ==
    [ pc |-> "validate", tax_input |-> tax_input,
      gross |-> 0, pension_contribution |-> 0, taxable_gross |-> 0,
      personal_allowance |-> 0, taxable_income |-> 0,
      basic |-> 0, higher |-> 0, additional |-> 0, total_income_tax |-> 0,
      ni |-> 0, student_loan |-> 0, postgrad_loan |-> 0,
      pension_tax_relief |-> 0, total_deductions |-> 0,
      net_annual |-> 0, net_monthly |-> [num |-> 0, den |-> 12],
      effective_rate |-> 0, marginal_rate |-> 0,
      raised |-> "none", returned |-> <<>> ]

IdleFrame == [NewFrame(<<>>) EXCEPT !.pc = "idle"]

\* the checks with the upper bound of the percent excluded
Validate_Below100(f) ==
    LET t == f.tax_input
    IN  IF t.gross_salary < 0
        THEN [f EXCEPT !.pc = "failed", !.raised = "NegativeSalary"]
        ELSE IF t.bonus < 0
        THEN [f EXCEPT !.pc = "failed", !.raised = "NegativeBonus"]
        ELSE IF \/ t.pension_contribution_percent < 0
                \/ t.pension_contribution_percent >= 100
        THEN [f EXCEPT !.pc = "failed", !.raised = "InvalidPensionPercent"]
        ELSE [f EXCEPT !.pc = "pension"]

\* lines 19-25: the three checks, in order
Validate(f) ==
    LET t == f.tax_input
    IN  IF t.gross_salary < 0
        THEN [f EXCEPT !.pc = "failed", !.raised = "NegativeSalary"]
        ELSE IF t.bonus < 0
        THEN [f EXCEPT !.pc = "failed", !.raised = "NegativeBonus"]
        ELSE IF \/ t.pension_contribution_percent < 0
                \/ t.pension_contribution_percent > 100
        THEN [f EXCEPT !.pc = "failed", !.raised = "InvalidPensionPercent"]
        ELSE [f EXCEPT !.pc = "pension"]

\* the contribution taken off the taxable gross under either treatment
ComputePension_AlwaysReduces(f) ==
    LET t == f.tax_input
        gross == t.gross_salary + t.bonus
        pension_contribution == Times(gross, t.pension_contribution_percent)
    IN  [f EXCEPT !.pc = "allowance",
                  !.gross = gross,
                  !.pension_contribution = pension_contribution,
                  !.taxable_gross = gross - pension_contribution]

\* the sacrificed contribution added to the taxable gross
ComputePension_SacrificeAdded(f) ==
    LET t == f.tax_input
        gross == t.gross_salary + t.bonus
        pension_contribution == Times(gross, t.pension_contribution_percent)
    IN  [f EXCEPT !.pc = "allowance",
                  !.gross = gross,
                  !.pension_contribution = pension_contribution,
                  !.taxable_gross = IF t.salary_sacrifice_pension
                                    THEN gross + pension_contribution
                                    ELSE gross]

\* lines 27-36
ComputePension(f) ==
    LET t == f.tax_input
        gross == t.gross_salary + t.bonus
        pension_contribution == Times(gross, t.pension_contribution_percent)
    IN  [f EXCEPT !.pc = "allowance",
                  !.gross = gross,
                  !.pension_contribution = pension_contribution,
                  !.taxable_gross = IF t.salary_sacrifice_pension
                                    THEN gross - pension_contribution
                                    ELSE gross]

\* the allowance applied whatever the job type
ComputeAllowance_AlwaysPrimary(R, f) ==
    LET t == f.tax_input
        personal_allowance == _calculate_personal_allowance(R, f.taxable_gross)
    IN  IF "is_secondary_job" \notin DOMAIN t
        THEN [f EXCEPT !.pc = "failed", !.raised = "AttributeError"]
        ELSE [f EXCEPT !.pc = "income_tax",
                       !.personal_allowance = personal_allowance,
                       !.taxable_income =
                           Max(0, f.taxable_gross - personal_allowance)]

\* lines 38-45; reading an attribute the argument does not carry raises
ComputeAllowance(R, f) ==
    LET t == f.tax_input
    IN  IF "is_secondary_job" \notin DOMAIN t
        THEN [f EXCEPT !.pc = "failed", !.raised = "AttributeError"]
        ELSE IF t.is_secondary_job
        THEN [f EXCEPT !.pc = "income_tax",
                       !.personal_allowance = 0,
                       !.taxable_income = f.taxable_gross]
        ELSE LET personal_allowance ==
                     _calculate_personal_allowance(R, f.taxable_gross)
             IN  [f EXCEPT !.pc = "income_tax",
                           !.personal_allowance = personal_allowance,
                           !.taxable_income =
                               Max(0, f.taxable_gross - personal_allowance)]

\* the bands charged on the gross, the allowance not taken off
ComputeIncomeTax_OnGross(R, f) ==
    LET bha == _calculate_income_tax(R, f.taxable_gross)
    IN  [f EXCEPT !.pc = "ni",
                  !.basic = bha[1], !.higher = bha[2], !.additional = bha[3],
                  !.total_income_tax = bha[1] + bha[2] + bha[3]]

\* lines 47-49
ComputeIncomeTax(R, f) ==
    LET bha == _calculate_income_tax(R, f.taxable_income)
    IN  [f EXCEPT !.pc = "ni",
                  !.basic = bha[1], !.higher = bha[2], !.additional = bha[3],
                  !.total_income_tax = bha[1] + bha[2] + bha[3]]

\* NI charged on the taxable income, after the allowance
ComputeNI_OnTaxableIncome(R, f) ==
    [f EXCEPT !.pc = "loans", !.ni = _calculate_ni(R, f.taxable_income)]

\* lines 51-52
ComputeNI(R, f) ==
    [f EXCEPT !.pc = "loans", !.ni = _calculate_ni(R, f.taxable_gross)]

\* the postgraduate repayment charged only when no undergraduate plan is
ComputeLoans_Exclusive(R, f) ==
    [f EXCEPT !.pc = "relief",
              !.student_loan =
                  _calculate_student_loan(R, f.taxable_gross,
                                          f.tax_input.student_loan_plan),
              !.postgrad_loan =
                  IF /\ f.tax_input.has_postgraduate_loan
                     /\ f.tax_input.student_loan_plan = NoPlan
                  THEN _calculate_postgraduate_loan(R, f.taxable_gross)
                  ELSE 0]

\* lines 54-61
ComputeLoans(R, f) ==
    [f EXCEPT !.pc = "relief",
              !.student_loan =
                  _calculate_student_loan(R, f.taxable_gross,
                                          f.tax_input.student_loan_plan),
              !.postgrad_loan =
                  IF f.tax_input.has_postgraduate_loan
                  THEN _calculate_postgraduate_loan(R, f.taxable_gross)
                  ELSE 0]

\* the relief on the whole excess over the band bounds, not capped by
\* the contribution
PensionTaxRelief_Uncapped(R, tax_input, pension_contribution, taxable_income) ==
    LET basic_max == R.income_tax.bands[1].max
        higher_max == R.income_tax.bands[2].max
    IN  IF tax_input.salary_sacrifice_pension \/ pension_contribution <= 0
        THEN 0
        ELSE IF taxable_income <= basic_max
        THEN 0
        ELSE Times(taxable_income - basic_max, 20)
             + ( IF taxable_income > higher_max
                 THEN Times(taxable_income - higher_max, 5)
                 ELSE 0 )

\* lines 63-81
PensionTaxRelief(R, tax_input, pension_contribution, taxable_income) ==
    LET basic_max == R.income_tax.bands[1].max
        higher_max == R.income_tax.bands[2].max
        higher_rate_portion ==
            Min(pension_contribution, taxable_income - basic_max)
        additional_portion ==
            Min(pension_contribution, taxable_income - higher_max)
    IN  IF tax_input.salary_sacrifice_pension \/ pension_contribution <= 0
        THEN 0
        ELSE IF taxable_income <= basic_max
        THEN 0
        ELSE Times(higher_rate_portion, 20)
             + ( IF taxable_income > higher_max
                 THEN Times(additional_portion, 5)
                 ELSE 0 )

ComputeRelief(R, f) ==
    [f EXCEPT !.pc = "totals",
              !.pension_tax_relief =
                  PensionTaxRelief(R, f.tax_input, f.pension_contribution,
                                   f.taxable_income)]

\* the totals with the contribution deducted under either treatment
ComputeTotals_AlwaysPension(f) ==
    LET total_deductions ==
            f.total_income_tax + f.ni + f.student_loan + f.postgrad_loan
            + f.pension_contribution
        net_annual == f.gross - total_deductions
    IN  [f EXCEPT !.pc = "marginal",
                  !.total_deductions = total_deductions,
                  !.net_annual = net_annual,
                  !.net_monthly = [num |-> net_annual, den |-> 12],
                  !.effective_rate =
                      IF f.gross > 0
                      THEN RoundedRate(total_deductions, f.gross)
                      ELSE 0]

\* the totals with the postgraduate repayment left out of the sum
ComputeTotals_NoPostgrad(f) ==
    LET total_deductions ==
            f.total_income_tax + f.ni + f.student_loan
            + ( IF ~f.tax_input.salary_sacrifice_pension
                THEN f.pension_contribution ELSE 0 )
        net_annual == f.gross - total_deductions
    IN  [f EXCEPT !.pc = "marginal",
                  !.total_deductions = total_deductions,
                  !.net_annual = net_annual,
                  !.net_monthly = [num |-> net_annual, den |-> 12],
                  !.effective_rate =
                      IF f.gross > 0
                      THEN RoundedRate(total_deductions, f.gross)
                      ELSE 0]

\* lines 83-95
ComputeTotals(f) ==
    LET total_deductions ==
            f.total_income_tax + f.ni + f.student_loan + f.postgrad_loan
            + ( IF ~f.tax_input.salary_sacrifice_pension
                THEN f.pension_contribution ELSE 0 )
        net_annual == f.gross - total_deductions
    IN  [f EXCEPT !.pc = "marginal",
                  !.total_deductions = total_deductions,
                  !.net_annual = net_annual,
                  !.net_monthly = [num |-> net_annual, den |-> 12],
                  !.effective_rate =
                      IF f.gross > 0
                      THEN RoundedRate(total_deductions, f.gross)
                      ELSE 0]

\* line 96
ComputeMarginal(R, f) ==
    [f EXCEPT !.pc = "build",
              !.marginal_rate =
                  _calculate_marginal_rate(R, f.taxable_gross, f.tax_input)]

\* lines 98-117: the TaxBreakdown of models/schemas.py, built in one
\* constructor call; a keyword the model does not declare is dropped
TaxBreakdown(f) ==
    [ gross_income |-> f.gross,
      taxable_income |-> f.taxable_income,
      personal_allowance_used |-> f.personal_allowance,
      income_tax_basic |-> f.basic,
      income_tax_higher |-> f.higher,
      income_tax_additional |-> f.additional,
      total_income_tax |-> f.total_income_tax,
      ni_contributions |-> f.ni,
      student_loan_repayment |-> f.student_loan,
      postgraduate_loan_repayment |-> f.postgrad_loan,
      pension_contribution |-> f.pension_contribution,
      pension_tax_relief |-> f.pension_tax_relief,
      total_deductions |-> f.total_deductions,
      net_annual_income |-> f.net_annual,
      net_monthly_income |-> f.net_monthly,
      effective_tax_rate |-> f.effective_rate,
      marginal_tax_rate |-> f.marginal_rate ]

BuildBreakdown(f) ==
    [f EXCEPT !.pc = "done", !.returned = <<TaxBreakdown(f)>>]

\* the statement at f.pc
Step(R, f) ==
    CASE f.pc = "validate" -> Validate(f)
      [] f.pc = "pension" -> ComputePension(f)
      [] f.pc = "allowance" -> ComputeAllowance(R, f)
      [] f.pc = "income_tax" -> ComputeIncomeTax(R, f)
      [] f.pc = "ni" -> ComputeNI(R, f)
      [] f.pc = "loans" -> ComputeLoans(R, f)
      [] f.pc = "relief" -> ComputeRelief(R, f)
      [] f.pc = "totals" -> ComputeTotals(f)
      [] f.pc = "marginal" -> ComputeMarginal(R, f)
      [] f.pc = "build" -> BuildBreakdown(f)
      [] OTHER -> f

Finished(f) == f.pc \in {"done", "failed"}

RECURSIVE Run(_, _)
Run(R, f) == IF Finished(f) THEN f ELSE Run(R, Step(R, f))

\* calculate as a function of the table and the argument: the final frame
calculate(R, tax_input) == Run(R, NewFrame(tax_input))

------------------------------------------------------------------------------
(* The arguments the calls are made with *)

\* the salary grid runs from 0 to GridSteps * 10000 pounds
GridSteps == 16

SalaryGrid == { Pounds(k * 10000) : k \in 0..GridSteps }

\* salaries on and next to the default table's thresholds
ThresholdSalaries ==
    { Pounds(x) : x \in { 12000, 12570, 12571, 27295, 37700, 50270, 50271,
                          99999, 100001, 125139, 125140, 125141 } }

\* with and without the attribute calculate reads at line 39: TaxInput as
\* models/schemas.py declares it has none; the callers pass one
JobFields ==
    { [is_secondary_job |-> b] : b \in BOOLEAN } \cup { <<>> }

TaxInputOf(salary, bonus, percent, sacrifice, plan, postgrad) ==
    [ gross_salary |-> salary,
      student_loan_plan |-> plan,
      has_postgraduate_loan |-> postgrad,
      pension_contribution_percent |-> percent,
      salary_sacrifice_pension |-> sacrifice,
      bonus |-> bonus,
      dividend_income |-> 0,
      rental_income |-> 0 ]

\* the pension contribution is a whole number of pounds
WholePoundPension(t) ==
    Times(t.gross_salary + t.bonus, t.pension_contribution_percent)
        % Pounds(1) = 0

ValidInputs ==
    { t \in { TaxInputOf(s, b, p, ss, pl, pg) @@ j :
                s \in SalaryGrid \cup ThresholdSalaries,
                b \in {0, Pounds(5000)},
                p \in {0, 5, 50, 100},
                ss \in BOOLEAN,
                pl \in StudentLoanPlan \cup {NoPlan},
                pg \in BOOLEAN,
                j \in JobFields } :
        WholePoundPension(t) }

\* arguments that break at least one of the three checks
RejectedInputs ==
    { t \in { TaxInputOf(s, b, p, ss, pl, FALSE) @@ j :
                s \in {Pounds(-1000), Pounds(-1), 0, Pounds(50000)},
                b \in {Pounds(-5000), Pounds(-1), 0},
                p \in {-5, -1, 0, 100, 101, 150},
                ss \in BOOLEAN,
                pl \in {NoPlan, "plan_2"},
                j \in JobFields } :
        \/ t.gross_salary < 0
        \/ t.bonus < 0
        \/ t.pension_contribution_percent \notin 0..100 }

TaxInputs == ValidInputs \cup RejectedInputs

------------------------------------------------------------------------------
(* The state machine: UKTaxCalculator() loads the table, then calls follow *)
(* one another, each running the body of calculate statement by statement  *)

\* calculate_uk_tax between calls
IdleTool ==
    [ pc |-> "idle", args |-> <<>>, plan |-> NoPlan,
      raised |-> "none", returned |-> <<>> ]

Init ==
    /\ rates = DefaultRates
    /\ loads = 1
    /\ frame = IdleFrame
    /\ frame2 = IdleFrame
    /\ tool = IdleTool

Call ==
    /\ frame.pc = "idle"
    /\ \E t \in TaxInputs : frame' = NewFrame(t)
    /\ UNCHANGED <<rates, frame2, loads, tool>>

AtValidate ==
    /\ frame.pc = "validate"
    /\ frame' = Validate(frame)
    /\ UNCHANGED <<rates, frame2, loads, tool>>

AtPension ==
    /\ frame.pc = "pension"
    /\ frame' = ComputePension(frame)
    /\ UNCHANGED <<rates, frame2, loads, tool>>

\* the allowance step keeping its result in the table for later calls
AtAllowance_CachesAllowance ==
    /\ frame.pc = "allowance"
    /\ frame' = ComputeAllowance(rates, frame)
    /\ rates' = IF frame'.pc = "income_tax"
                THEN [rates EXCEPT !.income_tax.personal_allowance =
                                       frame'.personal_allowance]
                ELSE rates
    /\ UNCHANGED <<frame2, loads, tool>>

AtAllowance ==
    /\ frame.pc = "allowance"
    /\ frame' = ComputeAllowance(rates, frame)
    /\ UNCHANGED <<rates, frame2, loads, tool>>

AtIncomeTax ==
    /\ frame.pc = "income_tax"
    /\ frame' = ComputeIncomeTax(rates, frame)
    /\ UNCHANGED <<rates, frame2, loads, tool>>

AtNI ==
    /\ frame.pc = "ni"
    /\ frame' = ComputeNI(rates, frame)
    /\ UNCHANGED <<rates, frame2, loads, tool>>

AtLoans ==
    /\ frame.pc = "loans"
    /\ frame' = ComputeLoans(rates, frame)
    /\ UNCHANGED <<rates, frame2, loads, tool>>

AtRelief ==
    /\ frame.pc = "relief"
    /\ frame' = ComputeRelief(rates, frame)
    /\ UNCHANGED <<rates, frame2, loads, tool>>

AtTotals ==
    /\ frame.pc = "totals"
    /\ frame' = ComputeTotals(frame)
    /\ UNCHANGED <<rates, frame2, loads, tool>>

AtMarginal ==
    /\ frame.pc = "marginal"
    /\ frame' = ComputeMarginal(rates, frame)
    /\ UNCHANGED <<rates, frame2, loads, tool>>

AtReturn ==
    /\ frame.pc = "build"
    /\ frame' = BuildBreakdown(frame)
    /\ UNCHANGED <<rates, frame2, loads, tool>>

\* the caller has the breakdown or the exception; the frame is gone
Leave ==
    /\ Finished(frame)
    /\ tool.pc # "calculate"
    /\ frame' = IdleFrame
    /\ UNCHANGED <<rates, frame2, loads, tool>>

\* the statements of calculate, and the return to the caller
Statements ==
    \/ AtValidate
    \/ AtPension
    \/ AtAllowance
    \/ AtIncomeTax
    \/ AtNI
    \/ AtLoans
    \/ AtRelief
    \/ AtTotals
    \/ AtMarginal
    \/ AtReturn
    \/ Leave

Next == Call \/ Statements

Spec == Init /\ [][Next]_vars

\* Calls over every whole-pound salary around the taper range, for a primary
\* job with no loan and no pension
SweepInputs ==
    { TaxInputOf(Pounds(x), 0, 0, FALSE, NoPlan, FALSE)
          @@ [is_secondary_job |-> FALSE] :
        x \in {30000, 60000} \cup (99990..125150) }

CallSweep ==
    /\ frame.pc = "idle"
    /\ \E t \in SweepInputs : frame' = NewFrame(t)
    /\ UNCHANGED <<rates, frame2, loads, tool>>

NextSweep == CallSweep \/ Statements

SpecSweep == Init /\ [][NextSweep]_vars

------------------------------------------------------------------------------
(* Two threads calling calculate on one UKTaxCalculator: the second call   *)
(* has its own frame and runs the same statements over the same self.rates *)

\* a few arguments: both job types, with and without a loan, one that
\* carries no job type and one that is rejected
FewInputs ==
    { TaxInputOf(Pounds(s), 0, 0, FALSE, pl, FALSE)
          @@ [is_secondary_job |-> j] :
        s \in {30000, 110000}, pl \in {NoPlan, "plan_2"}, j \in BOOLEAN }
    \cup { TaxInputOf(Pounds(50000), 0, 0, FALSE, NoPlan, FALSE),
           TaxInputOf(Pounds(-1), 0, 0, FALSE, NoPlan, FALSE)
               @@ [is_secondary_job |-> FALSE] }

CallFew ==
    /\ frame.pc = "idle"
    /\ \E t \in FewInputs : frame' = NewFrame(t)
    /\ UNCHANGED <<rates, frame2, loads, tool>>

Call2 ==
    /\ frame2.pc = "idle"
    /\ \E t \in FewInputs : frame2' = NewFrame(t)
    /\ UNCHANGED <<rates, frame, loads, tool>>

\* the second call's locals read from where the first call keeps its own
Step2_SharedLocals ==
    /\ frame2.pc \notin {"idle", "done", "failed"}
    /\ frame2' = Step(rates, [frame2 EXCEPT
                                 !.taxable_gross = frame.taxable_gross,
                                 !.taxable_income = frame.taxable_income])
    /\ UNCHANGED <<rates, frame, loads, tool>>

\* the next statement of the second call
Step2 ==
    /\ frame2.pc \notin {"idle", "done", "failed"}
    /\ frame2' = Step(rates, frame2)
    /\ UNCHANGED <<rates, frame, loads, tool>>

Leave2 ==
    /\ Finished(frame2)
    /\ frame2' = IdleFrame
    /\ UNCHANGED <<rates, frame, loads, tool>>

NextTwo == CallFew \/ Statements \/ Call2 \/ Step2 \/ Leave2

SpecTwo == Init /\ [][NextTwo]_vars

------------------------------------------------------------------------------
(* A new year's table adopted while calls are made: self.rates is given the *)
(* new table between two statements of whatever call is running             *)

\* the call, with a note of the table that self.rates held when it began
CallNoted ==
    /\ frame.pc = "idle"
    /\ \E t \in FewInputs :
           frame' = NewFrame(t) @@ [rates_at_call |-> rates]
    /\ UNCHANGED <<rates, frame2, loads, tool>>

\* self.rates = the new table
Swap ==
    /\ rates = DefaultRates
    /\ rates' = NextYearRates
    /\ UNCHANGED <<frame, frame2, loads, tool>>

NextSwap == CallNoted \/ Statements \/ Swap

SpecSwap == Init /\ [][NextSwap]_vars

------------------------------------------------------------------------------
(* calculate_uk_tax, the wrapper the agent's tool calls: it builds its own *)
(* UKTaxCalculator, turns the plan string into the enum, builds the        *)
(* TaxInput and calls calculate                                            *)

\* the number of times the rate file is read stays below MaxLoads
MaxLoads == 3

\* the wrapper's keyword arguments; the plan is a string or None
ToolArgs ==
    [ gross_salary : {Pounds(30000), Pounds(60000)},
      student_loan_plan : {NoPlan, "", "plan_2", "plan_3"},
      has_postgraduate_loan : {FALSE},
      pension_contribution_percent : {0},
      salary_sacrifice_pension : {FALSE},
      bonus : {0},
      is_secondary_job : BOOLEAN ]

\* TaxInput(**kwargs): the declared fields with their defaults; a keyword
\* the model does not declare is dropped
TaxInput(kwargs) ==
    LET defaults == TaxInputOf(0, 0, 0, FALSE, NoPlan, FALSE)
    IN  [ k \in DOMAIN defaults |->
            IF k \in DOMAIN kwargs THEN kwargs[k] ELSE defaults[k] ]

ToolCall ==
    /\ tool.pc = "idle"
    /\ frame.pc = "idle"
    /\ loads < MaxLoads
    /\ \E a \in ToolArgs :
           tool' = [IdleTool EXCEPT !.pc = "construct", !.args = a]
    /\ UNCHANGED <<rates, frame, frame2, loads>>

\* line 283: UKTaxCalculator() reads the rate file again
ToolConstruct ==
    /\ tool.pc = "construct"
    /\ rates' = DefaultRates
    /\ loads' = loads + 1
    /\ tool' = [tool EXCEPT !.pc = "convert"]
    /\ UNCHANGED <<frame, frame2>>

\* lines 285-287: None and "" are falsy; the enum's constructor raises
\* ValueError for a string that is none of its values
ToolConvertPlan ==
    /\ tool.pc = "convert"
    /\ LET student_loan_plan == tool.args.student_loan_plan
       IN  tool' = IF student_loan_plan \in {NoPlan, ""}
                   THEN [tool EXCEPT !.pc = "input", !.plan = NoPlan]
                   ELSE IF student_loan_plan \in StudentLoanPlan
                   THEN [tool EXCEPT !.pc = "input",
                                     !.plan = student_loan_plan]
                   ELSE [tool EXCEPT !.pc = "failed",
                                     !.raised = "ValueError"]
    /\ UNCHANGED <<rates, frame, frame2, loads>>

\* lines 289-299: the TaxInput is built and calculate is called with it
ToolBuildInput ==
    /\ tool.pc = "input"
    /\ frame' = NewFrame(TaxInput([tool.args EXCEPT
                                      !.student_loan_plan = tool.plan]))
    /\ tool' = [tool EXCEPT !.pc = "calculate"]
    /\ UNCHANGED <<rates, frame2, loads>>

\* lines 299-300: the breakdown is dumped to a dict and returned; an
\* exception of calculate passes through
ToolReturn ==
    /\ tool.pc = "calculate"
    /\ Finished(frame)
    /\ tool' = IF frame.pc = "done"
               THEN [tool EXCEPT !.pc = "done", !.returned = frame.returned]
               ELSE [tool EXCEPT !.pc = "failed", !.raised = frame.raised]
    /\ frame' = IdleFrame
    /\ UNCHANGED <<rates, frame2, loads>>

ToolLeave ==
    /\ tool.pc \in {"done", "failed"}
    /\ tool' = IdleTool
    /\ UNCHANGED <<rates, frame, frame2, loads>>

\* calculate called on the calculator at hand, not through the wrapper
CallDirect ==
    /\ tool.pc = "idle"
    /\ frame.pc = "idle"
    /\ \E t \in FewInputs : frame' = NewFrame(t)
    /\ UNCHANGED <<rates, frame2, loads, tool>>

NextTool ==
    \/ CallDirect
    \/ Statements
    \/ ToolCall
    \/ ToolConstruct
    \/ ToolConvertPlan
    \/ ToolBuildInput
    \/ ToolReturn
    \/ ToolLeave

SpecTool == Init /\ [][NextTool]_vars

------------------------------------------------------------------------------
(* The calculator over one of two rate files: the table is whatever the    *)
(* file read by __init__ holds                                             *)

\* salaries around the end of the taper range of either table, no loans, no
\* pension, both job types
TaperInputs ==
    { TaxInputOf(Pounds(x), 0, 0, FALSE, NoPlan, FALSE)
          @@ [is_secondary_job |-> j] :
        x \in { 60000, 99999, 100000, 110000, 125139, 125140, 125500,
                125999, 126000, 130000 },
        j \in BOOLEAN }

InitTables ==
    /\ rates \in {DefaultRates, NextYearRates}
    /\ loads = 1
    /\ frame = IdleFrame
    /\ frame2 = IdleFrame
    /\ tool = IdleTool

CallTaper ==
    /\ frame.pc = "idle"
    /\ \E t \in TaperInputs : frame' = NewFrame(t)
    /\ UNCHANGED <<rates, frame2, loads, tool>>

NextTables == CallTaper \/ Statements

SpecTables == InitTables /\ [][NextTables]_vars

------------------------------------------------------------------------------
(* Calls with the gross on, one pound below and one pound above every      *)
(* threshold of the default table, for every plan, both loan flags and     *)
(* both job types, no pension                                              *)

EdgeSalaries ==
    { Pounds(x + d) :
        x \in { 12570, 21000, 24990, 25000, 27295, 31395, 37700, 50270,
                100000, 125140 },
        d \in {-1, 0, 1} }
    \cup { 0, Pounds(30000), Pounds(110000), Pounds(150000) }

EdgeInputs ==
    { TaxInputOf(s, 0, 0, FALSE, pl, pg) @@ [is_secondary_job |-> j] :
        s \in EdgeSalaries,
        pl \in StudentLoanPlan \cup {NoPlan},
        pg \in BOOLEAN,
        j \in BOOLEAN }

CallEdge ==
    /\ frame.pc = "idle"
    /\ \E t \in EdgeInputs : frame' = NewFrame(t)
    /\ UNCHANGED <<rates, frame2, loads, tool>>

NextEdges == CallEdge \/ Statements

SpecEdges == Init /\ [][NextEdges]_vars

------------------------------------------------------------------------------
(* The calculator over the default rate file or one with four bands        *)

InitBands ==
    /\ rates \in {DefaultRates, FourBandRates}
    /\ loads = 1
    /\ frame = IdleFrame
    /\ frame2 = IdleFrame
    /\ tool = IdleTool

NextBands == CallFew \/ Statements

SpecBands == InitBands /\ [][NextBands]_vars

------------------------------------------------------------------------------
(* Vocabulary of the properties *)

\* the call in the frame has returned its breakdown
Returned == frame.pc = "done"

\* the post-pension-sacrifice gross of an argument, from the argument alone
PostPensionGross(t) ==
    LET gross == t.gross_salary + t.bonus
    IN  IF t.salary_sacrifice_pension
        THEN gross - Times(gross, t.pension_contribution_percent)
        ELSE gross

ValidationKinds == {"NegativeSalary", "NegativeBonus", "InvalidPensionPercent"}

\* hundredths of a percent
Percent(n) == n * 100

\* no division of the model truncates: the amounts are exact
ArithmeticExact ==
    frame.pc \notin {"idle", "validate", "failed"} =>
        /\ frame.gross % Pounds(1) = 0
        /\ frame.taxable_gross % Pounds(1) = 0
        /\ frame.pc \notin {"pension", "allowance"} =>
               /\ frame.personal_allowance % 100 = 0
               /\ frame.taxable_income % 100 = 0

------------------------------------------------------------------------------
(* C1 *)

\* C1: in every returned breakdown total_deductions is the sum of income tax,
\* NI, both loan repayments and (unless salary sacrifice) the pension
\* contribution, and net_annual_income + total_deductions is gross_income.
C1_Conservation ==
    Returned =>
        LET b == frame.returned[1]
            t == frame.tax_input
        IN  /\ b.total_deductions =
                   b.total_income_tax + b.ni_contributions
                   + b.student_loan_repayment + b.postgraduate_loan_repayment
                   + ( IF t.salary_sacrifice_pension THEN 0
                       ELSE b.pension_contribution )
            /\ b.net_annual_income + b.total_deductions = b.gross_income

\* a breakdown in which every summand is charged
C1_Witness ==
    /\ Returned
    /\ ~frame.tax_input.salary_sacrifice_pension
    /\ frame.returned[1].total_income_tax > 0
    /\ frame.returned[1].ni_contributions > 0
    /\ frame.returned[1].student_loan_repayment > 0
    /\ frame.returned[1].postgraduate_loan_repayment > 0
    /\ frame.returned[1].pension_contribution > 0

------------------------------------------------------------------------------
(* C2 *)

\* C2 as stated: each broken check alone decides the kind, whatever the other
\* fields are.
C2_EachCheckAlone ==
    frame.pc \notin {"idle", "validate"} =>
        LET t == frame.tax_input
        IN  /\ t.gross_salary < 0 => frame.raised = "NegativeSalary"
            /\ t.bonus < 0 => frame.raised = "NegativeBonus"
            /\ t.pension_contribution_percent \notin 0..100 =>
                   frame.raised = "InvalidPensionPercent"
            /\ ( /\ t.gross_salary >= 0
                 /\ t.bonus >= 0
                 /\ t.pension_contribution_percent \in 0..100 ) =>
                   frame.raised \notin ValidationKinds

\* C2 (amended): the checks run in the order salary, bonus, pension percent and
\* the first broken one decides the kind; an argument breaking none of them
\* (percent 0 and 100 included) is not rejected by validation.
C2_FirstBrokenCheck ==
    frame.pc \notin {"idle", "validate"} =>
        LET t == frame.tax_input
        IN  /\ t.gross_salary < 0 =>
                   frame.pc = "failed" /\ frame.raised = "NegativeSalary"
            /\ (t.gross_salary >= 0 /\ t.bonus < 0) =>
                   frame.pc = "failed" /\ frame.raised = "NegativeBonus"
            /\ ( /\ t.gross_salary >= 0
                 /\ t.bonus >= 0
                 /\ t.pension_contribution_percent \notin 0..100 ) =>
                   frame.pc = "failed" /\ frame.raised = "InvalidPensionPercent"
            /\ ( /\ t.gross_salary >= 0
                 /\ t.bonus >= 0
                 /\ t.pension_contribution_percent \in 0..100 ) =>
                   frame.raised \notin ValidationKinds

\* a negative bonus rejected as such, the salary being acceptable
C2_Witness ==
    /\ frame.pc = "failed"
    /\ frame.raised = "NegativeBonus"
    /\ frame.tax_input.gross_salary >= 0
    /\ frame.tax_input.bonus < 0

------------------------------------------------------------------------------
(* C3 *)

BreakdownFields ==
    { "gross_income", "taxable_income", "personal_allowance_used",
      "income_tax_basic", "income_tax_higher", "income_tax_additional",
      "total_income_tax", "ni_contributions", "student_loan_repayment",
      "postgraduate_loan_repayment", "pension_contribution",
      "pension_tax_relief", "total_deductions", "net_annual_income",
      "net_monthly_income", "effective_tax_rate", "marginal_tax_rate" }

\* C3: a call ends in one of two ways, a validation error raised before any
\* arithmetic ran and no breakdown, or a breakdown with every field; while
\* the call runs no breakdown exists.
C3_TwoOutcomes ==
    /\ frame.pc = "failed" =>
           /\ frame.raised \in ValidationKinds
           /\ frame = [NewFrame(frame.tax_input) EXCEPT
                           !.pc = "failed", !.raised = frame.raised]
    /\ frame.pc = "done" =>
           /\ frame.raised = "none"
           /\ Len(frame.returned) = 1
           /\ DOMAIN frame.returned[1] = BreakdownFields
    /\ frame.pc \notin {"done"} => frame.returned = <<>>

------------------------------------------------------------------------------
(* C4 *)

\* C4: a TaxInput as models/schemas.py declares it that passes the three
\* checks ends with a breakdown and raises nothing; gross 0 gives an
\* effective rate of 0.
C4_NoOtherError ==
    ( /\ Finished(frame)
      /\ "is_secondary_job" \notin DOMAIN frame.tax_input
      /\ frame.raised \notin ValidationKinds ) =>
        /\ frame.pc = "done"
        /\ frame.raised = "none"
        /\ frame.returned[1].gross_income = 0 =>
               frame.returned[1].effective_tax_rate = 0

------------------------------------------------------------------------------
(* C6 *)

\* C6: for a primary job, with g the post-pension-sacrifice gross:
\* g <= 100000 gives personal_allowance_used 12570, g >= 125140 gives 0, and
\* in between it is max(0, 12570 - (g - 100000) / 2).
C6_AllowanceRule ==
    (Returned /\ ~frame.tax_input.is_secondary_job) =>
        LET g == PostPensionGross(frame.tax_input)
            used == frame.returned[1].personal_allowance_used
        IN  /\ g <= Pounds(100000) => used = Pounds(12570)
            /\ g >= Pounds(125140) => used = 0
            /\ (Pounds(100000) < g /\ g < Pounds(125140)) =>
                   /\ 2 * used = 2 * Pounds(12570) - (g - Pounds(100000))
                   /\ used >= 0

\* a primary job inside the taper range, reached through salary sacrifice
C6_Witness ==
    /\ Returned
    /\ ~frame.tax_input.is_secondary_job
    /\ frame.tax_input.salary_sacrifice_pension
    /\ frame.tax_input.pension_contribution_percent > 0
    /\ PostPensionGross(frame.tax_input) > Pounds(100000)
    /\ PostPensionGross(frame.tax_input) < Pounds(125140)
    /\ frame.returned[1].personal_allowance_used > 0
    /\ frame.returned[1].personal_allowance_used < Pounds(12570)

------------------------------------------------------------------------------
(* C7 *)

\* C7: for a secondary job at any gross, personal_allowance_used is 0 and
\* taxable_income is the post-pension-sacrifice gross.
C7_SecondaryJob ==
    (Returned /\ frame.tax_input.is_secondary_job) =>
        /\ frame.returned[1].personal_allowance_used = 0
        /\ frame.returned[1].taxable_income =
               PostPensionGross(frame.tax_input)

\* a secondary job inside the taper range
C7_Witness ==
    /\ Returned
    /\ frame.tax_input.is_secondary_job
    /\ PostPensionGross(frame.tax_input) > Pounds(100000)
    /\ PostPensionGross(frame.tax_input) < Pounds(125140)
    /\ frame.returned[1].taxable_income > Pounds(100000)

------------------------------------------------------------------------------
(* C5 *)

\* the argument with another salary, all else kept
WithSalary(t, s) == [t EXCEPT !.gross_salary = s]

\* C5: of two valid arguments that differ only in gross_salary, the one with
\* the larger salary has total_deductions at least as large.
C5_Monotone ==
    Returned =>
        \A s \in SalaryGrid \cup ThresholdSalaries :
            ( /\ s > frame.tax_input.gross_salary
              /\ WholePoundPension(WithSalary(frame.tax_input, s)) ) =>
                calculate(rates, WithSalary(frame.tax_input, s))
                        .returned[1].total_deductions
                    >= frame.returned[1].total_deductions

\* a primary job inside the taper range, and a larger salary above it with
\* strictly larger deductions
C5_Witness ==
    /\ Returned
    /\ ~frame.tax_input.is_secondary_job
    /\ frame.taxable_gross > Pounds(100000)
    /\ frame.taxable_gross < Pounds(125140)
    /\ \E s \in SalaryGrid :
           /\ s > frame.tax_input.gross_salary
           /\ WholePoundPension(WithSalary(frame.tax_input, s))
           /\ calculate(rates, WithSalary(frame.tax_input, s))
                  .returned[1].total_deductions
              > frame.returned[1].total_deductions

------------------------------------------------------------------------------
(* C8 *)

\* C8: for a primary job with no loans and no pension the marginal rate is
\* 28 at gross 30000, 42 at 60000 and at 99999, 62 at every whole-pound
\* gross from 100000 to 125139, and 47 at 125140.
C8_MarginalBoundaries ==
    ( /\ Returned
      /\ ~frame.tax_input.is_secondary_job
      /\ frame.tax_input.student_loan_plan = NoPlan
      /\ ~frame.tax_input.has_postgraduate_loan
      /\ frame.tax_input.pension_contribution_percent = 0 ) =>
        LET g == frame.returned[1].gross_income
            m == frame.returned[1].marginal_tax_rate
        IN  /\ g = Pounds(30000) => m = Percent(28)
            /\ g = Pounds(60000) => m = Percent(42)
            /\ g = Pounds(99999) => m = Percent(42)
            /\ (Pounds(100000) <= g /\ g <= Pounds(125139)) => m = Percent(62)
            /\ g = Pounds(125140) => m = Percent(47)

\* the last pound of the 60% range
C8_Witness ==
    /\ Returned
    /\ ~frame.tax_input.is_secondary_job
    /\ frame.tax_input.student_loan_plan = NoPlan
    /\ ~frame.tax_input.has_postgraduate_loan
    /\ frame.tax_input.pension_contribution_percent = 0
    /\ frame.returned[1].gross_income = Pounds(125139)
    /\ frame.returned[1].marginal_tax_rate = Percent(62)

------------------------------------------------------------------------------
(* C9 *)

\* the rate of the band of the table that contains the amount x > 0
BandRateAt(R, x) ==
    LET bands == R.income_tax.bands
        k == CHOOSE i \in 1..Len(bands) :
                 bands[i].min < x /\ x <= BandMax(bands[i])
    IN  bands[k].rate

\* C9: for a secondary job the income-tax component of the marginal rate is
\* the plain rate of the band containing the post-pension gross + 1, never
\* the 60% of the taper range; gross 110000 with no loans gives 42.
C9_NoTrapForSecondary ==
    (Returned /\ frame.tax_input.is_secondary_job) =>
        LET t == frame.tax_input
            g == PostPensionGross(t)
            m == frame.returned[1].marginal_tax_rate
            others == NIMarginal(rates, g) + LoanMarginal(rates, g, t)
        IN  /\ m = Percent(BandRateAt(rates, g + Pounds(1)) + others)
            /\ (Pounds(100000) <= g /\ g <= Pounds(125140)) =>
                   m # Percent(60 + others)
            /\ ( /\ g = Pounds(110000)
                 /\ t.student_loan_plan = NoPlan
                 /\ ~t.has_postgraduate_loan ) => m = Percent(42)

\* a secondary job at 110000 with no loans
C9_Witness ==
    /\ Returned
    /\ frame.tax_input.is_secondary_job
    /\ PostPensionGross(frame.tax_input) = Pounds(110000)
    /\ frame.tax_input.student_loan_plan = NoPlan
    /\ ~frame.tax_input.has_postgraduate_loan
    /\ frame.returned[1].marginal_tax_rate = Percent(42)

------------------------------------------------------------------------------
(* C10 *)

\* C10: student_loan_repayment is max(0, g - threshold) * rate of the selected
\* plan (plan_2: 27295 and 0.09), postgraduate_loan_repayment is the same for
\* the postgraduate entry when the flag is set and 0 otherwise, and neither
\* changes when the other loan's selection changes.
C10_LoanRepayments ==
    Returned =>
        LET t == frame.tax_input
            b == frame.returned[1]
            g == PostPensionGross(t)
            loans == rates.student_loans
        IN  /\ t.student_loan_plan \in StudentLoanPlan =>
                   b.student_loan_repayment =
                       Times(Max(0, g - loans[t.student_loan_plan].threshold),
                             loans[t.student_loan_plan].rate)
            /\ t.student_loan_plan = "plan_2" =>
                   b.student_loan_repayment =
                       Times(Max(0, g - Pounds(27295)), 9)
            /\ b.postgraduate_loan_repayment =
                   IF t.has_postgraduate_loan
                   THEN Times(Max(0, g - loans.postgraduate.threshold),
                              loans.postgraduate.rate)
                   ELSE 0
            /\ \A pl \in StudentLoanPlan \cup {NoPlan} :
                   calculate(rates, [t EXCEPT !.student_loan_plan = pl])
                           .returned[1].postgraduate_loan_repayment
                       = b.postgraduate_loan_repayment
            /\ calculate(rates, [t EXCEPT !.has_postgraduate_loan =
                                              ~t.has_postgraduate_loan])
                       .returned[1].student_loan_repayment
                   = b.student_loan_repayment

\* both loans charged at once
C10_Witness ==
    /\ Returned
    /\ frame.tax_input.student_loan_plan = "plan_2"
    /\ frame.tax_input.has_postgraduate_loan
    /\ frame.returned[1].student_loan_repayment > 0
    /\ frame.returned[1].postgraduate_loan_repayment > 0

------------------------------------------------------------------------------
(* C12 *)

\* the same argument with the other pension treatment
WithSacrifice(t, b) == [t EXCEPT !.salary_sacrifice_pension = b]

\* C12: of two valid arguments that differ only in salary_sacrifice_pension,
\* the salary-sacrifice one has total_income_tax and ni_contributions no
\* larger, and net_annual_income no smaller, than the other.
C12_SacrificeComparison ==
    (Returned /\ frame.tax_input.salary_sacrifice_pension) =>
        LET s == frame.returned[1]
            n == calculate(rates, WithSacrifice(frame.tax_input, FALSE))
                     .returned[1]
        IN  /\ s.total_income_tax <= n.total_income_tax
            /\ s.ni_contributions <= n.ni_contributions
            /\ s.net_annual_income >= n.net_annual_income

\* a sacrificed contribution that lowers both income tax and NI
C12_Witness ==
    /\ Returned
    /\ frame.tax_input.salary_sacrifice_pension
    /\ frame.tax_input.pension_contribution_percent = 5
    /\ LET s == frame.returned[1]
           n == calculate(rates, WithSacrifice(frame.tax_input, FALSE))
                    .returned[1]
       IN  /\ s.total_income_tax < n.total_income_tax
           /\ s.ni_contributions < n.ni_contributions
           /\ s.net_annual_income > n.net_annual_income

------------------------------------------------------------------------------
(* C13 *)

\* a loan of the argument is charged at gross g under the table R
LoanActiveBelow(R, t, g) ==
    \/ /\ t.student_loan_plan \in DOMAIN R.student_loans
       /\ R.student_loans[t.student_loan_plan].threshold < g
    \/ /\ t.has_postgraduate_loan
       /\ R.student_loans.postgraduate.threshold < g

\* C13: at the default rates, for a primary job with no pension contribution
\* and no loan whose threshold is below the gross, every gross up to 12570
\* has total_income_tax, ni_contributions and total_deductions 0 and
\* net_annual_income equal to the gross.
C13_BelowThreshold ==
    ( /\ Returned
      /\ rates = DefaultRates
      /\ ~frame.tax_input.is_secondary_job
      /\ frame.tax_input.pension_contribution_percent = 0
      /\ frame.returned[1].gross_income <= Pounds(12570)
      /\ ~LoanActiveBelow(rates, frame.tax_input,
                          frame.returned[1].gross_income) ) =>
        LET b == frame.returned[1]
        IN  /\ b.total_income_tax = 0
            /\ b.ni_contributions = 0
            /\ b.total_deductions = 0
            /\ b.net_annual_income = b.gross_income
            /\ b.gross_income = Pounds(12000) =>
                   b.net_annual_income = Pounds(12000)

\* the last gross of the range, with both loans selected
C13_Witness ==
    /\ Returned
    /\ ~frame.tax_input.is_secondary_job
    /\ frame.tax_input.pension_contribution_percent = 0
    /\ frame.tax_input.student_loan_plan = "plan_1"
    /\ frame.tax_input.has_postgraduate_loan
    /\ frame.returned[1].gross_income = Pounds(12570)
    /\ frame.returned[1].net_annual_income = Pounds(12570)

------------------------------------------------------------------------------
(* C14 *)

\* C14: with gross_salary 0 and bonus 0, whatever the percent, the pension
\* treatment, the loans and the job type, the income tax of each band and in
\* total, NI, both loan repayments, pension_contribution, pension_tax_relief
\* and total_deductions are 0, and so are net_annual_income and
\* effective_tax_rate.
C14_ZeroCase ==
    ( /\ Returned
      /\ frame.tax_input.gross_salary = 0
      /\ frame.tax_input.bonus = 0 ) =>
        LET b == frame.returned[1]
        IN  /\ b.income_tax_basic = 0
            /\ b.income_tax_higher = 0
            /\ b.income_tax_additional = 0
            /\ b.total_income_tax = 0
            /\ b.ni_contributions = 0
            /\ b.student_loan_repayment = 0
            /\ b.postgraduate_loan_repayment = 0
            /\ b.pension_contribution = 0
            /\ b.pension_tax_relief = 0
            /\ b.total_deductions = 0
            /\ b.net_annual_income = 0
            /\ b.effective_tax_rate = 0

\* nothing earned on a secondary job, with both loans and a full
\* non-sacrifice contribution selected
C14_Witness ==
    /\ Returned
    /\ frame.tax_input.gross_salary = 0
    /\ frame.tax_input.bonus = 0
    /\ frame.tax_input.pension_contribution_percent = 100
    /\ ~frame.tax_input.salary_sacrifice_pension
    /\ frame.tax_input.student_loan_plan = "plan_2"
    /\ frame.tax_input.has_postgraduate_loan
    /\ frame.tax_input.is_secondary_job

------------------------------------------------------------------------------
(* C16 *)

\* the same argument for the other job type
WithJob(t, b) == [t EXCEPT !.is_secondary_job = b]

\* C16: of two valid arguments that differ only in is_secondary_job, the
\* secondary one never has the lower total_income_tax, and has the strictly
\* higher one when the post-pension gross g is above 0 and below 125140; a
\* secondary job with g up to 37700 has total_income_tax 0.20 * g (2000 at
\* 10000, 4000 at 20000).
C16_SecondaryVersusPrimary ==
    (Returned /\ frame.tax_input.is_secondary_job) =>
        LET t == frame.tax_input
            g == PostPensionGross(t)
            s == frame.returned[1].total_income_tax
            p == calculate(rates, WithJob(t, FALSE))
                     .returned[1].total_income_tax
        IN  /\ s >= p
            /\ (0 < g /\ g < Pounds(125140)) => s > p
            /\ g <= Pounds(37700) => s = Times(g, 20)
            /\ g = Pounds(10000) => s = Pounds(2000)
            /\ g = Pounds(20000) => s = Pounds(4000)

\* a secondary job at 20000, where the primary job pays tax as well
C16_Witness ==
    /\ Returned
    /\ frame.tax_input.is_secondary_job
    /\ PostPensionGross(frame.tax_input) = Pounds(20000)
    /\ frame.returned[1].total_income_tax = Pounds(4000)
    /\ calculate(rates, WithJob(frame.tax_input, FALSE))
           .returned[1].total_income_tax > 0

------------------------------------------------------------------------------
(* C15 *)

\* C15: two calculate calls with the identical argument, on the same table
\* and in any order relative to other calls, end the same way and return
\* breakdowns equal in every field; what a call returns does not depend on
\* the calls made before it.
C15_Determinism ==
    ( /\ Finished(frame)
      /\ Finished(frame2)
      /\ frame.tax_input = frame2.tax_input ) =>
        /\ frame.pc = frame2.pc
        /\ frame.raised = frame2.raised
        /\ frame.returned = frame2.returned

\* the same argument returned on both threads, inside the taper range
C15_Witness ==
    /\ frame.pc = "done"
    /\ frame2.pc = "done"
    /\ frame.tax_input = frame2.tax_input
    /\ ~frame.tax_input.is_secondary_job
    /\ frame.returned[1].personal_allowance_used = Pounds(7570)
    /\ frame2.returned[1].personal_allowance_used = Pounds(7570)

------------------------------------------------------------------------------
(* C17 *)

\* C17: in every interleaving of the statements of two calls on one
\* calculator no step writes the rate table or the load count, and a call
\* that ends has ended exactly as it ends when run alone.
C17_NoLockingNeeded ==
    [][ /\ rates' = rates
        /\ loads' = loads
        /\ Finished(frame') =>
               frame' = calculate(rates, frame'.tax_input)
        /\ Finished(frame2') =>
               frame2' = calculate(rates, frame2'.tax_input) ]_vars

\* one call has returned while the other, with another argument, is between
\* its statements
C17_Witness ==
    /\ frame.pc = "done"
    /\ frame2.pc = "relief"
    /\ frame.tax_input # frame2.tax_input
    /\ frame.returned[1].total_income_tax > 0
    /\ frame2.student_loan > 0

------------------------------------------------------------------------------
(* C18 *)

\* C18: when the table is replaced while a call is running, the call computes
\* its whole breakdown from the table that was current when it began: what it
\* returns is what calculate returns under that one table.
C18_OneTablePerCall ==
    Returned =>
        frame.returned =
            calculate(frame.rates_at_call, frame.tax_input).returned

------------------------------------------------------------------------------
(* C19 *)

\* C19: over any sequence of calculations in one process, those made through
\* calculate_uk_tax included, the rate configuration is loaded exactly once
\* and no calculation modifies it.
C19_LoadedOnce ==
    /\ loads = 1
    /\ rates = DefaultRates

------------------------------------------------------------------------------
(* C11 *)

\* C11: with an absent or unrecognized plan identifier the call succeeds and
\* student_loan_repayment is 0, both when calculate is called and when
\* calculate_uk_tax is called with the plan as a string.
C11_UnknownPlanIsZero ==
    /\ ( /\ tool.pc = "idle"
         /\ Finished(frame)
         /\ frame.raised \notin ValidationKinds
         /\ "is_secondary_job" \in DOMAIN frame.tax_input
         /\ frame.tax_input.student_loan_plan
                \notin DOMAIN rates.student_loans ) =>
            /\ frame.pc = "done"
            /\ frame.returned[1].student_loan_repayment = 0
    /\ ( /\ tool.pc \in {"done", "failed"}
         /\ tool.args.student_loan_plan \notin StudentLoanPlan ) =>
            /\ tool.pc = "done"
            /\ tool.returned[1].student_loan_repayment = 0

------------------------------------------------------------------------------
(* C20 *)

\* the income-tax component of a returned marginal rate, in hundredths
IncomeTaxComponent(R, f) ==
    f.returned[1].marginal_tax_rate \div 100
        - NIMarginal(R, f.taxable_gross)
        - LoanMarginal(R, f.taxable_gross, f.tax_input)

\* the override has replaced the rate of the band that holds the taxable
\* income of the next pound
OverrideApplied(R, f) ==
    LET next_gross == f.taxable_gross + Pounds(1)
        next_taxable ==
            next_gross - _calculate_personal_allowance(R, next_gross)
    IN  IncomeTaxComponent(R, f) # BandRateAt(R, next_taxable)

\* C20: for a primary job under any rate table the marginal-rate override is
\* applied exactly when taper_threshold < gross + 1 <= taper_threshold
\* + 2 * base_allowance, the bound following the table's own allowance and
\* threshold, and for no gross + 1 outside that range.
C20_OverrideRange ==
    (Returned /\ ~frame.tax_input.is_secondary_job) =>
        LET next_gross == frame.taxable_gross + Pounds(1)
            taper_threshold ==
                rates.income_tax.personal_allowance_taper_threshold
            base_allowance == rates.income_tax.personal_allowance
        IN  OverrideApplied(rates, frame)
            <=> ( /\ taper_threshold < next_gross
                  /\ next_gross <= taper_threshold + 2 * base_allowance )

------------------------------------------------------------------------------
(* C21 *)

\* total_deductions of the same argument one pound of salary higher
DeductionsOneUp(R, t) ==
    calculate(R, WithSalary(t, t.gross_salary + Pounds(1)))
        .returned[1].total_deductions

\* C21: at the default rates, for every whole-pound gross with no pension
\* contribution, whatever the loans and the job type, marginal_tax_rate / 100
\* is total_deductions at gross + 1 minus total_deductions at gross, also
\* when the gross is exactly on a threshold.
C21_NextPound ==
    ( /\ Returned
      /\ rates = DefaultRates
      /\ frame.tax_input.pension_contribution_percent = 0 ) =>
        frame.returned[1].marginal_tax_rate * Pounds(1) =
            Percent(100) * ( DeductionsOneUp(rates, frame.tax_input)
                             - frame.returned[1].total_deductions )

\* a primary job exactly on the upper earnings limit with a plan 2 loan:
\* 40% tax, 2% NI and 9% loan on the next pound
C21_Witness ==
    /\ Returned
    /\ ~frame.tax_input.is_secondary_job
    /\ frame.tax_input.student_loan_plan = "plan_2"
    /\ ~frame.tax_input.has_postgraduate_loan
    /\ frame.returned[1].gross_income = Pounds(50270)
    /\ frame.returned[1].marginal_tax_rate = Percent(51)
    /\ DeductionsOneUp(rates, frame.tax_input)
           - frame.returned[1].total_deductions = Times(Pounds(1), 51)

------------------------------------------------------------------------------
(* C22 *)

\* C22: with g the post-pension-sacrifice gross, ni_contributions is 0 when
\* g <= primary_threshold and otherwise (min(g, UEL) - primary_threshold)
\* * rate_between + max(0, g - UEL) * rate_above, with no further cap; the
\* two branches agree at g = primary_threshold and the two tiers at g = UEL.
C22_NationalInsurance ==
    Returned =>
        LET g == PostPensionGross(frame.tax_input)
            ni_rates == rates.national_insurance.class_1
            pt == ni_rates.primary_threshold_annual
            uel == ni_rates.upper_earnings_limit
            formula == Times(Min(g, uel) - pt, ni_rates.rate_between_thresholds)
                       + Times(Max(0, g - uel), ni_rates.rate_above_uel)
            ni == frame.returned[1].ni_contributions
        IN  /\ g <= pt => ni = 0
            /\ g > pt => ni = formula
            /\ g = pt => formula = 0
            /\ g = uel =>
                   ni = Times(uel - pt, ni_rates.rate_between_thresholds)

\* NI charged in both tiers
C22_Witness ==
    /\ Returned
    /\ PostPensionGross(frame.tax_input) = Pounds(160000)
    /\ frame.returned[1].ni_contributions =
           Times(Pounds(50270 - 12570), 8) + Times(Pounds(160000 - 50270), 2)

------------------------------------------------------------------------------
(* C23 *)

\* the part of the taxable income t that lies inside the band
Allocated(band, t) ==
    IF band.max = 0
    THEN Max(0, t - band.min)
    ELSE Min(Max(0, t - band.min), band.max - band.min)

\* C23: on the default table, for every taxable income t >= 0, each band in
\* ascending order is allocated min(remaining, width); the allocations sum
\* to t, a band has a non-zero allocation only when every lower band is
\* full, and total_income_tax is income_tax_basic + income_tax_higher
\* + income_tax_additional, each the band's allocation times its rate.
C23_BandSplitting ==
    (Returned /\ rates = DefaultRates) =>
        LET b == frame.returned[1]
            t == b.taxable_income
            bands == rates.income_tax.bands
            a1 == Allocated(bands[1], t)
            a2 == Allocated(bands[2], t)
            a3 == Allocated(bands[3], t)
        IN  /\ t >= 0
            /\ a1 = Min(t, bands[1].max - bands[1].min)
            /\ a2 = Min(t - a1, bands[2].max - bands[2].min)
            /\ a3 = t - a1 - a2
            /\ a1 + a2 + a3 = t
            /\ a2 > 0 => a1 = bands[1].max - bands[1].min
            /\ a3 > 0 => a2 = bands[2].max - bands[2].min
            /\ b.income_tax_basic = Times(a1, bands[1].rate)
            /\ b.income_tax_higher = Times(a2, bands[2].rate)
            /\ b.income_tax_additional = Times(a3, bands[3].rate)
            /\ b.total_income_tax =
                   b.income_tax_basic + b.income_tax_higher
                   + b.income_tax_additional

\* a taxable income that reaches all three bands
C23_Witness ==
    /\ Returned
    /\ frame.returned[1].taxable_income > Pounds(125140)
    /\ frame.returned[1].income_tax_basic = Pounds(7540)
    /\ frame.returned[1].income_tax_higher = Pounds(34976)
    /\ frame.returned[1].income_tax_additional > 0

------------------------------------------------------------------------------
(* C24 *)

\* the sum over bands 1..k of allocation times rate
RECURSIVE BandTaxSum(_, _, _)
BandTaxSum(bands, k, t) ==
    IF k = 0 THEN 0
    ELSE BandTaxSum(bands, k - 1, t)
         + Times(Allocated(bands[k], t), bands[k].rate)

\* C24: for any table with ascending, contiguous bands, the last unbounded,
\* whatever the labels and the number of bands, total_income_tax is the sum
\* over all bands of allocation times rate; no band's tax is left out.
C24_EveryBandCounted ==
    Returned =>
        LET bands == rates.income_tax.bands
        IN  frame.returned[1].total_income_tax =
                BandTaxSum(bands, Len(bands), frame.returned[1].taxable_income)

------------------------------------------------------------------------------
(* C25 *)

\* the argument with no contribution and the post-pension gross as salary
AfterSacrifice(t) ==
    [t EXCEPT !.gross_salary = PostPensionGross(t),
              !.bonus = 0,
              !.pension_contribution_percent = 0]

\* C25: with salary sacrifice at percent p, personal_allowance_used,
\* taxable_income, the income tax of each band and in total,
\* ni_contributions, both loan repayments, total_deductions and
\* marginal_tax_rate are those of the same argument with p = 0 and gross
\* * (1 - p/100) as gross; pension_contribution is gross * p/100 and
\* pension_tax_relief is 0.
C25_SacrificeEquivalence ==
    (Returned /\ frame.tax_input.salary_sacrifice_pension) =>
        LET t == frame.tax_input
            s == frame.returned[1]
            e == calculate(rates, AfterSacrifice(t)).returned[1]
        IN  /\ s.personal_allowance_used = e.personal_allowance_used
            /\ s.taxable_income = e.taxable_income
            /\ s.income_tax_basic = e.income_tax_basic
            /\ s.income_tax_higher = e.income_tax_higher
            /\ s.income_tax_additional = e.income_tax_additional
            /\ s.total_income_tax = e.total_income_tax
            /\ s.ni_contributions = e.ni_contributions
            /\ s.student_loan_repayment = e.student_loan_repayment
            /\ s.postgraduate_loan_repayment = e.postgraduate_loan_repayment
            /\ s.total_deductions = e.total_deductions
            /\ s.marginal_tax_rate = e.marginal_tax_rate
            /\ s.pension_contribution =
                   Times(t.gross_salary + t.bonus,
                         t.pension_contribution_percent)
            /\ s.pension_tax_relief = 0

\* half of 120000 sacrificed: taxed as 60000
C25_Witness ==
    /\ Returned
    /\ frame.tax_input.salary_sacrifice_pension
    /\ frame.tax_input.pension_contribution_percent = 50
    /\ frame.tax_input.gross_salary = Pounds(120000)
    /\ frame.tax_input.bonus = 0
    /\ frame.returned[1].pension_contribution = Pounds(60000)
    /\ frame.returned[1].taxable_income = Pounds(60000 - 12570)
    /\ frame.returned[1].total_deductions > 0

------------------------------------------------------------------------------
(* C26 *)

\* the same argument with another contribution percent
WithPercent(t, q) == [t EXCEPT !.pension_contribution_percent = q]

\* C26: without salary sacrifice, changing only the contribution percent
\* leaves personal_allowance_used, taxable_income, income tax,
\* ni_contributions, both loan repayments and marginal_tax_rate as they
\* are, while total_deductions grows and net_annual_income shrinks by
\* exactly pension_contribution = gross * percent / 100.
C26_NonSacrificeFrame ==
    (Returned /\ ~frame.tax_input.salary_sacrifice_pension) =>
        LET t == frame.tax_input
            b == frame.returned[1]
            z == calculate(rates, WithPercent(t, 0)).returned[1]
        IN  /\ b.personal_allowance_used = z.personal_allowance_used
            /\ b.taxable_income = z.taxable_income
            /\ b.income_tax_basic = z.income_tax_basic
            /\ b.income_tax_higher = z.income_tax_higher
            /\ b.income_tax_additional = z.income_tax_additional
            /\ b.total_income_tax = z.total_income_tax
            /\ b.ni_contributions = z.ni_contributions
            /\ b.student_loan_repayment = z.student_loan_repayment
            /\ b.postgraduate_loan_repayment = z.postgraduate_loan_repayment
            /\ b.marginal_tax_rate = z.marginal_tax_rate
            /\ b.pension_contribution =
                   Times(t.gross_salary + t.bonus,
                         t.pension_contribution_percent)
            /\ b.total_deductions =
                   z.total_deductions + b.pension_contribution
            /\ b.net_annual_income =
                   z.net_annual_income - b.pension_contribution

\* a 5% contribution of a higher-rate earner
C26_Witness ==
    /\ Returned
    /\ ~frame.tax_input.salary_sacrifice_pension
    /\ frame.tax_input.pension_contribution_percent = 5
    /\ frame.returned[1].gross_income = Pounds(60000)
    /\ frame.returned[1].pension_contribution = Pounds(3000)
    /\ frame.returned[1].total_income_tax > 0
    /\ frame.returned[1].total_deductions =
           calculate(rates, WithPercent(frame.tax_input, 0))
               .returned[1].total_deductions + Pounds(3000)

------------------------------------------------------------------------------
(* C27 *)

\* C27: without salary sacrifice the part of the contribution relieved at
\* the extra 20% and the part relieved at the further 5% are each between
\* 0 and pension_contribution, so pension_tax_relief is between 0 and
\* 0.25 * pension_contribution, also with the taxable income exactly on a
\* band's upper bound; it is 0 whenever taxable_income does not exceed the
\* basic band's upper bound.
C27_ReliefBounds ==
    (Returned /\ ~frame.tax_input.salary_sacrifice_pension) =>
        LET b == frame.returned[1]
            pc == b.pension_contribution
            basic_max == rates.income_tax.bands[1].max
            higher_max == rates.income_tax.bands[2].max
            higher_rate_portion ==
                Min(pc, Max(0, b.taxable_income - basic_max))
            additional_portion ==
                Min(pc, Max(0, b.taxable_income - higher_max))
        IN  /\ 0 <= higher_rate_portion /\ higher_rate_portion <= pc
            /\ 0 <= additional_portion /\ additional_portion <= pc
            /\ b.pension_tax_relief =
                   Times(higher_rate_portion, 20)
                   + Times(additional_portion, 5)
            /\ 0 <= b.pension_tax_relief
            /\ b.pension_tax_relief <= Times(pc, 25)
            /\ b.taxable_income <= basic_max => b.pension_tax_relief = 0

\* an additional-rate earner whose 5% contribution is relieved in part at
\* both extra rates, the cap of 20% on the whole contribution reached
C27_Witness ==
    /\ Returned
    /\ ~frame.tax_input.salary_sacrifice_pension
    /\ frame.tax_input.pension_contribution_percent = 5
    /\ frame.returned[1].taxable_income > Pounds(125140)
    /\ frame.returned[1].pension_tax_relief >
           Times(frame.returned[1].pension_contribution, 20)
    /\ frame.returned[1].pension_tax_relief <=
           Times(frame.returned[1].pension_contribution, 25)

------------------------------------------------------------------------------
(* C28 *)

\* C28: student_loan_plan is plan_1, plan_2, plan_4, plan_5 or absent; no
\* calculation that returns has student_loan_plan = postgraduate, so the
\* postgraduate repayment is charged through has_postgraduate_loan alone
\* and at most once in a breakdown.
C28_NoPostgraduatePlan ==
    Returned =>
        /\ frame.tax_input.student_loan_plan
               \in {"plan_1", "plan_2", "plan_4", "plan_5", NoPlan}
        /\ ~ ( /\ frame.tax_input.student_loan_plan = "postgraduate"
               /\ frame.returned[1].student_loan_repayment > 0
               /\ frame.returned[1].postgraduate_loan_repayment > 0 )

------------------------------------------------------------------------------
(* C29 *)

\* C29: of two valid arguments that differ only in is_secondary_job,
\* ni_contributions, student_loan_repayment, postgraduate_loan_repayment,
\* pension_contribution and gross_income are the same.
C29_JobTypeFrame ==
    Returned =>
        LET b == frame.returned[1]
            o == calculate(rates,
                           WithJob(frame.tax_input,
                                   ~frame.tax_input.is_secondary_job))
                     .returned[1]
        IN  /\ b.ni_contributions = o.ni_contributions
            /\ b.student_loan_repayment = o.student_loan_repayment
            /\ b.postgraduate_loan_repayment = o.postgraduate_loan_repayment
            /\ b.pension_contribution = o.pension_contribution
            /\ b.gross_income = o.gross_income

\* a secondary job with NI and both loans charged, whose income tax is not
\* that of the primary job
C29_Witness ==
    /\ Returned
    /\ frame.tax_input.is_secondary_job
    /\ frame.returned[1].ni_contributions > 0
    /\ frame.returned[1].student_loan_repayment > 0
    /\ frame.returned[1].postgraduate_loan_repayment > 0
    /\ frame.returned[1].total_income_tax #
           calculate(rates, WithJob(frame.tax_input, FALSE))
               .returned[1].total_income_tax

------------------------------------------------------------------------------
(* C30 *)

\* C30 as stated: for every valid argument total_deductions is at most
\* gross_income, so net_annual_income and net_monthly_income are at least 0
\* and effective_tax_rate is between 0 and 100.
C30_DeductionsWithinGross ==
    Returned =>
        LET b == frame.returned[1]
        IN  /\ b.total_deductions <= b.gross_income
            /\ b.net_annual_income >= 0
            /\ b.net_monthly_income.num >= 0
            /\ 0 <= b.effective_tax_rate
            /\ b.effective_tax_rate <= Percent(100)

\* C30 amended: income tax, NI and the loan repayments together never
\* exceed the post-pension-sacrifice gross; with salary sacrifice, or with
\* no contribution, total_deductions is at most gross_income,
\* net_annual_income and net_monthly_income are at least 0 and
\* effective_tax_rate is between 0 and 100.
C30_WithinGrossUnlessContribution ==
    Returned =>
        LET t == frame.tax_input
            b == frame.returned[1]
        IN  /\ b.total_income_tax + b.ni_contributions
                   + b.student_loan_repayment + b.postgraduate_loan_repayment
               <= PostPensionGross(t)
            /\ ( \/ t.salary_sacrifice_pension
                 \/ t.pension_contribution_percent = 0 ) =>
                   /\ b.total_deductions <= b.gross_income
                   /\ b.net_annual_income >= 0
                   /\ b.net_monthly_income.num >= 0
                   /\ 0 <= b.effective_tax_rate
                   /\ b.effective_tax_rate <= Percent(100)

\* a secondary job with both loans and half the gross sacrificed
C30_Witness ==
    /\ Returned
    /\ frame.tax_input.is_secondary_job
    /\ frame.tax_input.salary_sacrifice_pension
    /\ frame.tax_input.pension_contribution_percent = 50
    /\ frame.returned[1].student_loan_repayment > 0
    /\ frame.returned[1].postgraduate_loan_repayment > 0
    /\ frame.returned[1].total_deductions > 0
    /\ frame.returned[1].net_annual_income > 0

====
